---- MODULE Spec2Model ----
(***************************************************************************)
(* Arithmetic slide-puzzle engine (app/services/puzzle_generation.py):     *)
(* exact rationals, line evaluation with precedence, Puzzle construction,  *)
(* the backtracking solver and the batch loop generate_and_store_puzzles.  *)
(*                                                                         *)
(* Encoding of Python values:                                              *)
(*   Fraction        <<numerator, denominator>>, lowest terms, den > 0     *)
(*   None (Fraction) <<0, 0>>                                              *)
(*   Optional[int]   <<>> for None, <<i>> for the integer i                *)
(*   float (a count) <<n, d>> for the non-integer n/d, in place of <<i>>   *)
(*   str             a sequence of one-character strings                   *)
(*   list            a sequence (1-based; list index i is element i + 1)   *)
(*   board           a function on 0 .. N*N-1, 0 standing for None         *)
(*   Counter         a function from the counted values to their counts    *)
(***************************************************************************)
EXTENDS Integers, Sequences, FiniteSets, TLC

VARIABLES
    pc,             \* position of the running operation
    cfg,            \* arguments of the running operation
    grandom,        \* state of the module-level generator of `random`
    p,              \* the Puzzle built last (find_one_puzzle's p)
    q,              \* the Puzzle built before p
    qcfg,           \* the arguments q was built with
    sols,           \* value returned by the last solve_all call
    attempts,       \* generate_and_store_puzzles: attempts
    saved_specs,    \* generate_and_store_puzzles: saved_specs
    inserted,       \* board specs handed to puzzles_repo.insert_puzzle, in order
    line,           \* arguments of the pure function called: [values, ops], [kind, fr, s]
    res             \* value returned by the pure function called


(***************************************************************************)
(* Bounds of the model.                                                    *)
(***************************************************************************)
MaxLineLen == 3         \* longest line handed to _eval_line_with_precedence
MaxEntropy == 3         \* seeds the system entropy can give: 0 .. MaxEntropy
MaxCap == 2             \* largest max_solutions handed to solve_all directly
MaxCount == 2           \* largest count asked of generate_and_store_puzzles
MaxAttempts == 3        \* largest max_attempts given to generate_and_store_puzzles
MaxStrLen == 3          \* longest string handed to _string_to_fraction directly
MaxNum == 12            \* largest numerator (in absolute value) of a formatted Fraction
MaxDen == 4             \* largest denominator of a formatted Fraction
EvalValues == {-1, 0, 2, 3}
OpSymbols == {"+", "-", "*", "/"}

(***************************************************************************)
(* fractions.Fraction                                                      *)
(***************************************************************************)
None == <<0, 0>>

Abs(x) == IF x < 0 THEN -x ELSE x

RECURSIVE GCD(_, _)
GCD(a, b) == IF b = 0 THEN a ELSE GCD(b, a % b)

\* Fraction(n, d), d # 0: lowest terms, the sign carried by the numerator.
Fraction(n, d) ==
    LET g == GCD(Abs(n), Abs(d))
        s == IF d < 0 THEN -1 ELSE 1
    IN  <<(s * n) \div g, (s * d) \div g>>

FrInt(i) == <<i, 1>>
FrAdd(a, b) == Fraction(a[1] * b[2] + b[1] * a[2], a[2] * b[2])
FrSub(a, b) == Fraction(a[1] * b[2] - b[1] * a[2], a[2] * b[2])
FrMul(a, b) == Fraction(a[1] * b[1], a[2] * b[2])
FrDiv(a, b) == Fraction(a[1] * b[2], a[2] * b[1])

(***************************************************************************)
(* Fraction <-> string                                                     *)
(***************************************************************************)
Digit(d) == <<"0", "1", "2", "3", "4", "5", "6", "7", "8", "9">>[d + 1]

RECURSIVE NatToStr(_)
NatToStr(n) == IF n < 10 THEN <<Digit(n)>> ELSE NatToStr(n \div 10) \o <<Digit(n % 10)>>

\* str(i) for an int i
IntToStr(i) == IF i < 0 THEN <<"-">> \o NatToStr(-i) ELSE NatToStr(i)

_fraction_to_string_numerator_only(fr) ==
    IntToStr(fr[1])

_fraction_to_string(fr) ==
    IF fr[2] = 1 THEN IntToStr(fr[1]) ELSE IntToStr(fr[1]) \o <<"/">> \o IntToStr(fr[2])

\* the value of a digit character
DigitValue(ch) == CHOOSE d \in 0..9 : Digit(d) = ch

IsDigit(ch) == \E d \in 0..9 : Digit(d) = ch

\* s.strip() over the whitespace character " "
RECURSIVE LStrip(_)
LStrip(s) == IF s # <<>> /\ s[1] = " " THEN LStrip(Tail(s)) ELSE s

RECURSIVE RStrip(_)
RStrip(s) == IF s # <<>> /\ s[Len(s)] = " " THEN RStrip(SubSeq(s, 1, Len(s) - 1)) ELSE s

Strip(s) == RStrip(LStrip(s))

\* the number written by a non-empty string of digits
RECURSIVE DigitsValue(_)
DigitsValue(s) ==
    IF Len(s) = 1 THEN DigitValue(s[1])
    ELSE 10 * DigitsValue(SubSeq(s, 1, Len(s) - 1)) + DigitValue(s[Len(s)])

\* int(s) for a str s: surrounding whitespace and one sign allowed, then digits
int(s) ==
    LET t      == Strip(s)
        signed == t # <<>> /\ t[1] \in {"+", "-"}
        digits == IF signed THEN Tail(t) ELSE t
    IN  IF digits = <<>> \/ \E i \in 1..Len(digits) : ~IsDigit(digits[i])
        THEN [raised |-> TRUE, why |-> "ValueError"]
        ELSE [raised |-> FALSE,
              value |-> IF signed /\ t[1] = "-" THEN -DigitsValue(digits)
                                                ELSE DigitsValue(digits)]

\* position of the first "/" of s, 0 when there is none
FirstSlash(s) ==
    IF \E i \in 1..Len(s) : s[i] = "/"
    THEN CHOOSE i \in 1..Len(s) : s[i] = "/" /\ \A j \in 1..(i - 1) : s[j] # "/"
    ELSE 0

\* Fraction(n, d) of two parsed ints; a zero d raises ZeroDivisionError
FractionOf(n, d) ==
    IF n.raised THEN n
    ELSE IF d.raised THEN d
    ELSE IF d.value = 0 THEN [raised |-> TRUE, why |-> "ZeroDivisionError"]
    ELSE [raised |-> FALSE, value |-> Fraction(n.value, d.value)]

_string_to_fraction(s) ==
    LET t == Strip(s)
        i == FirstSlash(t)
    IN  IF i > 0 THEN FractionOf(int(SubSeq(t, 1, i - 1)), int(SubSeq(t, i + 1, Len(t))))
        ELSE FractionOf(int(t), [raised |-> FALSE, value |-> 1])

(***************************************************************************)
(* Expression evaluation                                                   *)
(***************************************************************************)
_apply_mul_div(a, b, op) ==
    IF op = "*" THEN FrMul(a, b)
    ELSE IF b = FrInt(0) THEN None ELSE FrDiv(a, b)

\* Pass 1 of _eval_line_with_precedence from operator index i (1-based) on:
\* the reduced lists [vals, ops], or None once a division by zero is met.
RECURSIVE CollapseMulDiv(_, _, _, _, _)
CollapseMulDiv(values, ops, i, tmp_vals, tmp_ops) ==
    IF i > Len(ops) THEN [vals |-> tmp_vals, ops |-> tmp_ops, undefined |-> FALSE]
    ELSE LET op == ops[i]
             b  == FrInt(values[i + 1])
         IN  IF op \in {"*", "/"}
             THEN LET a == tmp_vals[Len(tmp_vals)]
                      r == _apply_mul_div(a, b, op)
                  IN  IF r = None
                      THEN [vals |-> tmp_vals, ops |-> tmp_ops, undefined |-> TRUE]
                      ELSE CollapseMulDiv(values, ops, i + 1,
                               Append(SubSeq(tmp_vals, 1, Len(tmp_vals) - 1), r), tmp_ops)
             ELSE CollapseMulDiv(values, ops, i + 1, Append(tmp_vals, b), Append(tmp_ops, op))

\* Pass 2: + and - left to right over the reduced list.
RECURSIVE ApplyAddSub(_, _, _, _)
ApplyAddSub(tmp_vals, tmp_ops, j, acc) ==
    IF j > Len(tmp_ops) THEN acc
    ELSE ApplyAddSub(tmp_vals, tmp_ops, j + 1,
                     IF tmp_ops[j] = "+" THEN FrAdd(acc, tmp_vals[j + 1])
                                         ELSE FrSub(acc, tmp_vals[j + 1]))

_eval_line_no_precedence(values, ops) ==
    LET c == [vals |-> [i \in 1..Len(values) |-> FrInt(values[i])], ops |-> ops]
        RECURSIVE Fold(_, _)
        Fold(j, acc) ==
            IF j > Len(ops) THEN acc
            ELSE IF acc = None THEN None
            ELSE Fold(j + 1,
                      CASE ops[j] = "+" -> FrAdd(acc, c.vals[j + 1])
                        [] ops[j] = "-" -> FrSub(acc, c.vals[j + 1])
                        [] OTHER -> _apply_mul_div(acc, c.vals[j + 1], ops[j]))
    IN  Fold(1, c.vals[1])

_eval_line_with_precedence(values, ops) ==
    LET c == CollapseMulDiv(values, ops, 1, <<FrInt(values[1])>>, <<>>)
    IN  IF c.undefined THEN None
        ELSE ApplyAddSub(c.vals, c.ops, 1, c.vals[1])

(***************************************************************************)
(* random.Random: a deterministic generator whose state is a number in     *)
(* 1 .. 100; every draw is a function of the state and advances it.  A     *)
(* generator seeded without a seed takes its seed from the system entropy. *)
(***************************************************************************)
Random(seed) == ((5 * seed) % 100) + 1

\* _randbelow(n): a value in 0 .. n-1 and the generator's next state
randbelow(s, n) == [value |-> s % n, state |-> (2 * s) % 101]

\* choice(seq): seq[_randbelow(len(seq))]
choice(s, seq) ==
    LET d == randbelow(s, Len(seq))
    IN  [value |-> seq[d.value + 1], state |-> d.state]

\* count successive choice(seq) calls
RECURSIVE ChoiceN(_, _, _)
ChoiceN(s, seq, count) ==
    IF count = 0 THEN [value |-> <<>>, state |-> s]
    ELSE LET d    == choice(s, seq)
             rest == ChoiceN(d.state, seq, count - 1)
         IN  [value |-> <<d.value>> \o rest.value, state |-> rest.state]

Swap(x, i, j) == [x EXCEPT ![i] = x[j], ![j] = x[i]]

\* shuffle(x): for i in reversed(range(1, len(x))): j = _randbelow(i + 1); swap x[i], x[j]
RECURSIVE ShuffleFrom(_, _, _)
ShuffleFrom(s, x, i) ==
    IF i < 1 THEN [value |-> x, state |-> s]
    ELSE LET d == randbelow(s, i + 1)
         IN  ShuffleFrom(d.state, Swap(x, i + 1, d.value + 1), i - 1)

shuffle(s, x) == ShuffleFrom(s, x, Len(x) - 1)

(***************************************************************************)
(* Puzzle: normalization of the constructor's arguments                    *)
(*   operators_spec   a sequence of tuples <<op>>, <<op, <<>>>> (count     *)
(*                    None) or <<op, <<count>>>>                           *)
(*   numbers_choices  <<>> for None, <<list>> for a list                   *)
(***************************************************************************)
DEFAULT_OP_SPEC == << <<"+">>, <<"-">> >>

\* a dict as a sequence of <<key, value>> in insertion order
DictKeys(d) == {d[i][1] : i \in 1..Len(d)}
DictSet(d, k, v) ==
    IF k \in DictKeys(d)
    THEN [i \in 1..Len(d) |-> IF d[i][1] = k THEN <<k, v>> ELSE d[i]]
    ELSE Append(d, <<k, v>>)

RECURSIVE SumValues(_)
SumValues(d) == IF d = <<>> THEN 0 ELSE d[1][2] + SumValues(Tail(d))

Elems(seq) == {seq[i] : i \in 1..Len(seq)}

Raised(why) == [raised |-> TRUE, why |-> why]

\* the loop of _normalize_op_spec over spec[i..]
RECURSIVE NormalizeFrom(_, _, _, _)

\* the count tested for falsity in place of "is None": 0 read as unlimited
NormalizeFromFalsyCount(spec, i, op_exact, op_unlimited) ==
    IF i > Len(spec)
    THEN [raised |-> FALSE, op_exact |-> op_exact, op_unlimited |-> op_unlimited]
    ELSE LET tup == spec[i] IN
         IF Len(tup) = 1 \/ tup[2] = <<>> \/ tup[2][1] = 0
         THEN NormalizeFrom(spec, i + 1, op_exact, Append(op_unlimited, tup[1]))
         ELSE NormalizeFrom(spec, i + 1, DictSet(op_exact, tup[1], tup[2][1]), op_unlimited)

NormalizeFrom(spec, i, op_exact, op_unlimited) ==
    IF i > Len(spec)
    THEN IF \E op \in DictKeys(op_exact) : op \in Elems(op_unlimited)
         THEN Raised("both exact and unlimited")
         ELSE IF op_exact = <<>> /\ op_unlimited = <<>>
         THEN Raised("no operator")
         ELSE [raised |-> FALSE, op_exact |-> op_exact, op_unlimited |-> op_unlimited]
    ELSE LET tup == spec[i] IN
         IF ~(1 <= Len(tup) /\ Len(tup) <= 2) THEN Raised("invalid tuple")
         ELSE IF tup[1] \notin OpSymbols THEN Raised("invalid operator")
         ELSE IF Len(tup) = 1 \/ tup[2] = <<>>
         THEN NormalizeFrom(spec, i + 1, op_exact, Append(op_unlimited, tup[1]))
         ELSE IF Len(tup[2]) # 1 \/ tup[2][1] < 0 THEN Raised("invalid count")
         ELSE NormalizeFrom(spec, i + 1, DictSet(op_exact, tup[1], tup[2][1]), op_unlimited)

_normalize_op_spec(spec) ==
    IF spec = <<>> THEN Raised("empty spec")
    ELSE NormalizeFrom(spec, 1, <<>>, <<>>)

\* the values not compared with 2
_normalize_number_choices_unchecked(choices) ==
    IF choices = <<>> THEN [raised |-> FALSE, value |-> <<2, 3, 4, 5, 6, 7, 8, 9>>]
    ELSE IF choices[1] = <<>> THEN Raised("empty numbers_choices")
    ELSE [raised |-> FALSE, value |-> choices[1]]

_normalize_number_choices(choices) ==
    IF choices = <<>> THEN [raised |-> FALSE, value |-> <<2, 3, 4, 5, 6, 7, 8, 9>>]
    ELSE IF choices[1] = <<>> THEN Raised("empty numbers_choices")
    ELSE IF \E i \in 1..Len(choices[1]) : choices[1][i] < 2 THEN Raised("value < 2")
    ELSE [raised |-> FALSE, value |-> choices[1]]

(***************************************************************************)
(* Puzzle: generation                                                      *)
(***************************************************************************)
\* a hash of the key "<today>-<N>"
_daily_seed(today, N) == today * 31 + N

\* a number drawn for the blank cell too
_gen_numbers_with_blank(N, rng, numbers_choices) ==
    ChoiceN(rng, numbers_choices, N * N)

_gen_numbers_without_blank(N, rng, numbers_choices) ==
    ChoiceN(rng, numbers_choices, N * N - 1)

\* [op] * cnt for every (op, cnt) of op_exact with cnt > 0, in dict order
RECURSIVE ExactPool(_)
ExactPool(op_exact) ==
    IF op_exact = <<>> THEN <<>>
    ELSE (IF op_exact[1][2] > 0 THEN [i \in 1..op_exact[1][2] |-> op_exact[1][1]] ELSE <<>>)
         \o ExactPool(Tail(op_exact))

\* [next(it) for _ in range(L)] for each L of lengths, it standing at offset `at`
RECURSIVE TakeSlices(_, _, _)
TakeSlices(pool, at, lengths) ==
    IF lengths = <<>> THEN <<>>
    ELSE <<SubSeq(pool, at + 1, at + lengths[1])>>
         \o TakeSlices(pool, at + lengths[1], Tail(lengths))

RECURSIVE SumSeq(_)
SumSeq(x) == IF x = <<>> THEN 0 ELSE x[1] + SumSeq(Tail(x))

\* every row first, every level after them
FlattenRowsThenLevels(hops, vops, r, N) ==
    LET RECURSIVE Cat(_)
        Cat(x) == IF x = <<>> THEN <<>> ELSE x[1] \o Cat(Tail(x))
    IN  Cat(hops) \o Cat(vops)

\* flat: h_row0, v_level0, ..., h_row_{N-2}, v_level_{N-2}, h_row_{N-1}
RECURSIVE Flatten(_, _, _, _)
Flatten(hops, vops, r, N) ==
    IF r = N - 1 THEN hops[N]
    ELSE hops[r + 1] \o vops[r + 1] \o Flatten(hops, vops, r + 1, N)

_gen_operators(N, op_exact, op_unlimited, g) ==
    LET total     == 2 * N * (N - 1) - 2
        exact_sum == SumValues(op_exact)
        remaining == total - exact_sum
    IN  IF total = 0
        THEN [raised |-> FALSE, hops_per_row |-> [r \in 1..N |-> <<>>],
              vops_per_level |-> [l \in 1..(N - 1) |-> <<>>], operators |-> <<>>,
              grandom |-> g]
        ELSE IF exact_sum > total THEN Raised("exact counts exceed total")
        ELSE IF remaining > 0 /\ Len(op_unlimited) = 0 THEN Raised("operators missing")
        ELSE LET fill      == ChoiceN(g, op_unlimited, remaining)
                 ops_pool  == shuffle(fill.state, ExactPool(op_exact) \o fill.value)
                 h_lengths == [r \in 1..N |-> IF r < N THEN N - 1 ELSE N - 2]
                 v_lengths == [l \in 1..(N - 1) |-> IF l < N - 1 THEN N ELSE N - 1]
                 hops      == TakeSlices(ops_pool.value, 0, h_lengths)
                 vops      == TakeSlices(ops_pool.value, SumSeq(h_lengths), v_lengths)
             IN  [raised |-> FALSE, hops_per_row |-> hops, vops_per_level |-> vops,
                  operators |-> Flatten(hops, vops, 0, N), grandom |-> ops_pool.state]

(***************************************************************************)
(* Puzzle: operator accessors and expected targets                         *)
(***************************************************************************)
_row_ops(self, r) == self.hops_per_row[r + 1]

_col_ops(self, c) ==
    [level \in 1..(self.N - 2) |-> self.vops_per_level[level][c + 1]]
    \o (IF c < self.N - 1 THEN <<self.vops_per_level[self.N - 1][c + 1]>> ELSE <<>>)

\* b[start : start + n] of a list b
Slice(b, start, n) == SubSeq(b, start + 1, start + n)

_compute_expected(self) ==
    LET N == self.N
        b == self.numbers
        row(r) == _eval_line_with_precedence(
                      IF r < N - 1 THEN Slice(b, r * N, N) ELSE Slice(b, r * N, N - 1),
                      _row_ops(self, r))
        col(c) == _eval_line_with_precedence(
                      IF c < N - 1 THEN [i \in 1..N |-> b[(i - 1) * N + c + 1]]
                                   ELSE [i \in 1..(N - 1) |-> b[(i - 1) * N + c + 1]],
                      _col_ops(self, c))
        expected == [i \in 1..(2 * N) |-> IF i <= N THEN row(i - 1) ELSE col(i - 1 - N)]
    IN  IF \E i \in 1..(2 * N) : expected[i] = None
        THEN Raised("division by zero")
        ELSE [raised |-> FALSE, value |-> expected]

(***************************************************************************)
(* Puzzle.__init__                                                         *)
(*   a        the keyword arguments [N, seed, use_daily_seed,              *)
(*            shuffle_after_expected, operators_spec, numbers_choices]     *)
(*   today    date.today()                                                 *)
(*   entropy  the seed random.Random(None) takes from the system           *)
(*   g        state of the module-level generator                          *)
(* Value: [self, grandom]; self.raised tells a ValueError from a Puzzle.   *)
(***************************************************************************)
\* sampled: the numbers drawn from self._rng before the raise
NoPuzzle(why, g, sampled) ==
    [self |-> [raised |-> TRUE, why |-> why, sampled |-> sampled], grandom |-> g]

\* lines 126-130: the optional shuffle, and the object
PuzzleShuffled(N, ops, dom, nums, mesh, exp, shuf) ==
    [self |-> [raised |-> FALSE, N |-> N,
               op_exact |-> ops.op_exact, op_unlimited |-> ops.op_unlimited,
               numbers_choices |-> dom.value,
               sampled |-> nums.value,          \* numbers as sampled, before the shuffle
               numbers |-> shuf.value,
               hops_per_row |-> mesh.hops_per_row,
               vops_per_level |-> mesh.vops_per_level,
               operators |-> mesh.operators,
               expected |-> exp.value,
               rng |-> shuf.state,
               solutions |-> <<>>],
     grandom |-> mesh.grandom]

\* the shuffle done first and the targets computed from the shuffled numbers
PuzzleExpectedAfterShuffle(a, ops, dom, nums, mesh, exp) ==
    LET shuf == IF a.shuffle_after_expected THEN shuffle(nums.state, nums.value)
                                            ELSE [value |-> nums.value, state |-> nums.state]
        late == _compute_expected([N |-> a.N, numbers |-> shuf.value,
                                   hops_per_row |-> mesh.hops_per_row,
                                   vops_per_level |-> mesh.vops_per_level])
    IN  IF late.raised THEN NoPuzzle(late.why, mesh.grandom, nums.value)
        ELSE PuzzleShuffled(a.N, ops, dom, nums, mesh, late, shuf)

\* line 124: expected = _compute_expected()
PuzzleExpected(a, ops, dom, nums, mesh, exp) ==
    IF exp.raised THEN NoPuzzle(exp.why, mesh.grandom, nums.value)
    ELSE PuzzleShuffled(a.N, ops, dom, nums, mesh, exp,
             IF a.shuffle_after_expected THEN shuffle(nums.state, nums.value)
                                         ELSE [value |-> nums.value, state |-> nums.state])

\* lines 115-121: numbers, then operators
PuzzleGenerated(a, ops, dom, nums, mesh, g) ==
    IF mesh.raised THEN NoPuzzle(mesh.why, g, nums.value)
    ELSE PuzzleExpected(a, ops, dom, nums, mesh,
             _compute_expected([N |-> a.N, numbers |-> nums.value,
                                hops_per_row |-> mesh.hops_per_row,
                                vops_per_level |-> mesh.vops_per_level]))

\* lines 109-112: the normalized arguments
PuzzleNormalized(a, rng, ops, dom, g) ==
    IF ops.raised THEN NoPuzzle(ops.why, g, <<>>)
    ELSE IF dom.raised THEN NoPuzzle(dom.why, g, <<>>)
    ELSE PuzzleGenerated(a, ops, dom,
             _gen_numbers_without_blank(a.N, rng, dom.value),
             _gen_operators(a.N, ops.op_exact, ops.op_unlimited, g), g)

\* lines 104-106: self._rng
PuzzleRng(a, today, entropy) ==
    IF a.seed # <<>> THEN Random(a.seed[1])
    ELSE IF a.use_daily_seed THEN Random(_daily_seed(today, a.N))
    ELSE Random(entropy)

Puzzle(a, today, entropy, g) ==
    IF a.N < 2 THEN NoPuzzle("N < 2", g, <<>>)
    ELSE PuzzleNormalized(a, PuzzleRng(a, today, entropy),
             _normalize_op_spec(IF a.operators_spec = <<>> \/ a.operators_spec[1] = <<>>
                                THEN DEFAULT_OP_SPEC ELSE a.operators_spec[1]),
             _normalize_number_choices(a.numbers_choices), g)

(***************************************************************************)
(* Puzzle: board helpers, equality                                         *)
(***************************************************************************)
_row_values(self, board, r) ==
    IF r < self.N - 1 THEN [i \in 1..self.N |-> board[r * self.N + i - 1]]
                      ELSE [i \in 1..(self.N - 1) |-> board[r * self.N + i - 1]]

_col_values(self, board, c) ==
    IF c < self.N - 1 THEN [i \in 1..self.N |-> board[(i - 1) * self.N + c]]
                      ELSE [i \in 1..(self.N - 1) |-> board[(i - 1) * self.N + c]]

_row_is_valid(self, board, r) ==
    LET r0 == _eval_line_with_precedence(_row_values(self, board, r), _row_ops(self, r))
    IN  r0 # None /\ r0 = self.expected[r + 1]

\* the column compared with the target of the row of the same index
_col_is_valid_row_target(self, board, c) ==
    LET r0 == _eval_line_with_precedence(_col_values(self, board, c), _col_ops(self, c))
    IN  r0 # None /\ r0 = self.expected[c + 1]

_col_is_valid(self, board, c) ==
    LET r0 == _eval_line_with_precedence(_col_values(self, board, c), _col_ops(self, c))
    IN  r0 # None /\ r0 = self.expected[self.N + c + 1]

\* collections.Counter(list)
Counter(x) == [v \in Elems(x) |-> Cardinality({i \in 1..Len(x) : x[i] = v})]

\* the numbers compared as lists, in order
is_equal_to_ordered(self, other) ==
    /\ self.N = other.N
    /\ self.operators = other.operators
    /\ self.expected = other.expected
    /\ self.numbers = other.numbers

\* the operators and the targets left out of the comparison
is_equal_to_numbers_only(self, other) ==
    /\ self.N = other.N
    /\ Counter(self.numbers) = Counter(other.numbers)

is_equal_to(self, other) ==
    /\ self.N = other.N
    /\ self.operators = other.operators
    /\ self.expected = other.expected
    /\ Counter(self.numbers) = Counter(other.numbers)

(***************************************************************************)
(* Puzzle.solve_all                                                        *)
(***************************************************************************)
completes_row(idx, N) ==
    LET r == idx \div N
        c == idx % N
    IN  IF r < N - 1 /\ c = N - 1 THEN <<r>>
        ELSE IF r = N - 1 /\ c = N - 2 THEN <<r>>
        ELSE <<>>

\* the last column taken to end in the bottom row like the others
completes_col_unshortened(idx, N) ==
    LET r == idx \div N
        c == idx % N
    IN  IF r = N - 1 THEN <<c>> ELSE <<>>

completes_col(idx, N) ==
    LET r == idx \div N
        c == idx % N
    IN  IF c < N - 1 /\ r = N - 1 THEN <<c>>
        ELSE IF c = N - 1 /\ r = N - 2 THEN <<c>>
        ELSE <<>>

\* [v for v, cnt in pool.items() if cnt > 0], sorted by (pool[v], v)
RECURSIVE SortByCount(_, _)
SortByCount(pool, S) ==
    IF S = {} THEN <<>>
    ELSE LET v == CHOOSE x \in S : \A y \in S :
                      \/ pool[x] < pool[y]
                      \/ (pool[x] = pool[y] /\ x <= y)
         IN  <<v>> \o SortByCount(pool, S \ {v})

candidates(pool) == SortByCount(pool, {v \in DOMAIN pool : pool[v] > 0})

fill_order(N) == [i \in 1..(N * N - 1) |-> i - 1]

\* place(k) on the shared state st = [board, pool, solutions]; the loop over
\* candidates[i..] is place_loop.  Both give the state when place(k) returns.
RECURSIVE place(_, _, _, _)
RECURSIVE place_loop(_, _, _, _, _, _)

place(self, max_solutions, k, st) ==
    IF k = Len(fill_order(self.N))
    THEN [st EXCEPT !.solutions =
              Append(@, [i \in 1..Len(fill_order(self.N)) |-> st.board[fill_order(self.N)[i]]])]
    ELSE place_loop(self, max_solutions, k, candidates(st.pool), 1, st)

\* the cap tested with > in place of >=
place_loop_cap_exceeded(self, max_solutions, k, cands, i, st) ==
    IF i > Len(cands) THEN st
    ELSE LET idx == fill_order(self.N)[k + 1]
             val == cands[i]
             st1 == [st EXCEPT !.board[idx] = val, !.pool[val] = @ - 1]
             undo(s) == [s EXCEPT !.board[idx] = 0, !.pool[val] = @ + 1]
             rr  == completes_row(idx, self.N)
             cc  == completes_col(idx, self.N)
         IN  IF rr # <<>> /\ ~_row_is_valid(self, st1.board, rr[1])
             THEN place_loop(self, max_solutions, k, cands, i + 1, undo(st1))
             ELSE IF cc # <<>> /\ ~_col_is_valid(self, st1.board, cc[1])
             THEN place_loop(self, max_solutions, k, cands, i + 1, undo(st1))
             ELSE LET st2 == place(self, max_solutions, k + 1, st1)
                  IN  IF max_solutions # <<>> /\ Len(st2.solutions) > max_solutions[1]
                      THEN undo(st2)
                      ELSE place_loop(self, max_solutions, k, cands, i + 1, undo(st2))

place_loop(self, max_solutions, k, cands, i, st) ==
    IF i > Len(cands) THEN st
    ELSE LET idx == fill_order(self.N)[k + 1]
             val == cands[i]
             st1 == [st EXCEPT !.board[idx] = val, !.pool[val] = @ - 1]
             undo(s) == [s EXCEPT !.board[idx] = 0, !.pool[val] = @ + 1]
             rr  == completes_row(idx, self.N)
             cc  == completes_col(idx, self.N)
         IN  IF rr # <<>> /\ ~_row_is_valid(self, st1.board, rr[1])
             THEN place_loop(self, max_solutions, k, cands, i + 1, undo(st1))
             ELSE IF cc # <<>> /\ ~_col_is_valid(self, st1.board, cc[1])
             THEN place_loop(self, max_solutions, k, cands, i + 1, undo(st1))
             ELSE LET st2 == place(self, max_solutions, k + 1, st1)
                  IN  IF max_solutions # <<>> /\ Len(st2.solutions) >= max_solutions[1]
                      THEN undo(st2)
                      ELSE place_loop(self, max_solutions, k, cands, i + 1, undo(st2))

\* the value returned by solve_all(max_solutions)
solve_all(self, max_solutions) ==
    place(self, max_solutions, 0,
          [board |-> [i \in 0..(self.N * self.N - 1) |-> 0],
           pool |-> Counter(self.numbers),
           solutions |-> <<>>]).solutions

(***************************************************************************)
(* BE-facing helpers                                                       *)
(***************************************************************************)
Min(a, b) == IF a < b THEN a ELSE b

\* the dict of _as_board_spec; the optional key "solutions" is <<>> when absent
_as_board_spec(self, include_solutions, solutions_cap) ==
    [N |-> self.N,
     numbers |-> self.numbers,
     operators |-> self.operators,
     expected |-> [i \in 1..Len(self.expected) |-> _fraction_to_string(self.expected[i])],
     solutions |-> IF ~include_solutions THEN <<>>
                   ELSE IF solutions_cap = <<>> THEN <<self.solutions>>
                   ELSE <<SubSeq(self.solutions, 1, Min(solutions_cap[1], Len(self.solutions)))>>]

_is_duplicate_never(self, bag) == FALSE

_is_duplicate(self, bag) ==
    LET expected_str == [i \in 1..Len(self.expected) |-> _fraction_to_string(self.expected[i])]
    IN  \E i \in 1..Len(bag) :
            /\ bag[i].N = self.N
            /\ bag[i].operators = self.operators
            /\ bag[i].expected = expected_str
            /\ Counter(bag[i].numbers) = Counter(self.numbers)

\* find_one_puzzle: [raised, found, self, grandom]; found = FALSE is the value None
\* lines 629-632: the verdict on the solutions sols of the Puzzle built
FindOneVerdictAnyCount(r, found, require_unique) ==
    [raised |-> FALSE, found |-> Len(found) >= 1,
     self |-> [r.self EXCEPT !.solutions = found], grandom |-> r.grandom]

FindOneVerdict(r, found, require_unique) ==
    [raised |-> FALSE,
     found |-> IF require_unique THEN Len(found) = 1 ELSE Len(found) >= 1,
     self |-> [r.self EXCEPT !.solutions = found], grandom |-> r.grandom]

FindOneSolved(r, require_unique, max_solutions_check) ==
    IF r.self.raised
    THEN [raised |-> TRUE, found |-> FALSE, self |-> r.self, grandom |-> r.grandom]
    ELSE FindOneVerdict(r, solve_all(r.self, max_solutions_check), require_unique)

find_one_puzzle(N, operators_spec, allowed_numbers, require_unique, max_solutions_check, today, entropy, g) ==
    FindOneSolved(Puzzle([N |-> N, seed |-> <<>>, use_daily_seed |-> FALSE,
                          shuffle_after_expected |-> TRUE, operators_spec |-> operators_spec,
                          numbers_choices |-> allowed_numbers], today, entropy, g),
                  require_unique, max_solutions_check)

(***************************************************************************)
(* Specification SpecEval: _eval_line_with_precedence on every line of at  *)
(* most MaxLineLen values.                                                 *)
(***************************************************************************)
SeqsOfLen(S, n) == [1..n -> S]

Lines ==
    UNION {{[values |-> v, ops |-> o] : v \in SeqsOfLen(EvalValues, n),
                                        o \in SeqsOfLen(OpSymbols, n - 1)} : n \in 1..MaxLineLen}

\* The locals of a running solve_all call.
VARIABLES
    board,          \* solve_all: board
    pool,           \* solve_all: pool
    solutions,      \* solve_all: solutions
    stack           \* solve_all: the active calls of place, the innermost last

solver == <<board, pool, solutions, stack>>

vars == <<pc, cfg, grandom, p, q, qcfg, sols, attempts, saved_specs, inserted, line, res, solver>>

\* no call of solve_all is running
NotSolving ==
    /\ board = <<>>
    /\ pool = <<>>
    /\ solutions = <<>>
    /\ stack = <<>>

Idle ==
    /\ NotSolving
    /\ cfg = <<>>
    /\ grandom = 0
    /\ p = <<>>
    /\ q = <<>>
    /\ qcfg = <<>>
    /\ sols = <<>>
    /\ attempts = 0
    /\ saved_specs = <<>>
    /\ inserted = <<>>

NoLine ==
    /\ line = <<>>
    /\ res = None

InitEval ==
    /\ Idle
    /\ pc = "eval"
    /\ line \in Lines
    /\ res = None

EvalLine ==
    /\ pc = "eval"
    /\ res' = _eval_line_with_precedence(line.values, line.ops)
    /\ pc' = "evaluated"
    /\ UNCHANGED <<cfg, grandom, p, q, qcfg, sols, attempts, saved_specs, inserted, line, solver>>

NextEval == EvalLine

SpecEval == InitEval /\ [][NextEval]_vars

(***************************************************************************)
(* Specification SpecString: _fraction_to_string on every Fraction with    *)
(* numerator up to MaxNum and denominator up to MaxDen, parsed back by     *)
(* _string_to_fraction; and _string_to_fraction on every string of at most *)
(* MaxStrLen characters.  line holds the argument, res the returned value. *)
(*   pc = "string"     before the call                                     *)
(*   pc = "formatted"  res = _fraction_to_string(line.fr)                  *)
(*   pc = "parsed"     res = _string_to_fraction(...): [raised, value/why] *)
(***************************************************************************)
StrChars == {"0", "1", "3", "-", "/", " ", "x"}

FractionInputs == {Fraction(n, d) : n \in (-MaxNum)..MaxNum, d \in 1..MaxDen}

StringInputs == UNION {SeqsOfLen(StrChars, n) : n \in 0..MaxStrLen}

InitString ==
    /\ Idle
    /\ pc = "string"
    /\ line \in {[kind |-> "Fraction", fr |-> x, s |-> <<>>] : x \in FractionInputs}
          \cup {[kind |-> "str", fr |-> None, s |-> x] : x \in StringInputs}
    /\ res = <<>>

\* res = _fraction_to_string(fr)
FormatFraction ==
    /\ pc = "string"
    /\ line.kind = "Fraction"
    /\ res' = _fraction_to_string(line.fr)
    /\ pc' = "formatted"
    /\ UNCHANGED <<cfg, grandom, p, q, qcfg, sols, attempts, saved_specs, inserted, line, solver>>

\* res = _string_to_fraction(res)
ParseBack ==
    /\ pc = "formatted"
    /\ res' = _string_to_fraction(res)
    /\ pc' = "parsed"
    /\ UNCHANGED <<cfg, grandom, p, q, qcfg, sols, attempts, saved_specs, inserted, line, solver>>

\* res = _string_to_fraction(s)
ParseString ==
    /\ pc = "string"
    /\ line.kind = "str"
    /\ res' = _string_to_fraction(line.s)
    /\ pc' = "parsed"
    /\ UNCHANGED <<cfg, grandom, p, q, qcfg, sols, attempts, saved_specs, inserted, line, solver>>

NextString == FormatFraction \/ ParseBack \/ ParseString

SpecString == InitString /\ [][NextString]_vars

(***************************************************************************)
(* Specification SpecPuzzle: Puzzle(...) called once or twice, and         *)
(* solve_all on the Puzzle built first.                                    *)
(***************************************************************************)
Opt(x) == <<x>>

OpSpecs ==
    { <<>>,                                                  \* None
      Opt(<< <<"+">> >>),
      Opt(<< <<"+">>, <<"*", Opt(2)>> >>),
      Opt(<< <<"-", <<>>>>, <<"/", Opt(1)>> >>),
      Opt(<< <<"+", Opt(2)>>, <<"*">>, <<"-", Opt(0)>> >>) }

\* operator specs the constructor is documented to refuse, and the empty list
RefusedOpSpecs ==
    { Opt(<<>>),                                             \* []
      Opt(<< <<"%">> >>),                                    \* [('%',)]
      Opt(<< <<"+">>, <<"*", Opt(-1)>> >>),                  \* [('+',), ('*', -1)]
      Opt(<< <<"+">>, <<"*", <<3, 2>>>> >>),                 \* [('+',), ('*', 1.5)]
      Opt(<< <<"+", Opt(1)>>, <<"+">> >>),                   \* [('+', 1), ('+',)]
      Opt(<< <<"+", Opt(11)>>, <<"-">> >>),                  \* [('+', 11), ('-',)]
      Opt(<< <<"*", Opt(1)>> >>) }                           \* [('*', 1)]

\* number domains outside 2..9, and the empty list
RefusedDomains == {Opt(<<>>), Opt(<<0>>), Opt(<<1, 5>>), Opt(<<10>>)}

PuzzleArgs ==
    { a \in [N : {2, 3},
             seed : {<<>>, Opt(42)},
             use_daily_seed : BOOLEAN,
             shuffle_after_expected : BOOLEAN,
             operators_spec : OpSpecs,
             numbers_choices : {<<>>, Opt(<<2, 3>>), Opt(<<2, 4, 6>>)}] :
        /\ a.seed # <<>> => ~a.use_daily_seed
        /\ a.N = 3 => a.numbers_choices # <<>> }
    \cup [N : {2, 3}, seed : {<<>>, Opt(42)}, use_daily_seed : {FALSE},
          shuffle_after_expected : {FALSE},
          operators_spec : RefusedOpSpecs, numbers_choices : {Opt(<<2, 3>>)}]
    \cup [N : {2, 3}, seed : {<<>>, Opt(42)}, use_daily_seed : {FALSE},
          shuffle_after_expected : {FALSE},
          operators_spec : {Opt(<< <<"+">>, <<"*", Opt(2)>> >>)},
          numbers_choices : RefusedDomains]

Today == 7

InitPuzzle ==
    /\ NoLine
    /\ NotSolving
    /\ pc = "new"
    /\ cfg \in PuzzleArgs
    /\ grandom \in {Random(e) : e \in 0..MaxEntropy}
    /\ p = <<>>
    /\ q = <<>>
    /\ qcfg = <<>>
    /\ sols = <<>>
    /\ attempts = 0
    /\ saved_specs = <<>>
    /\ inserted = <<>>

\* p = Puzzle(cfg), the Puzzle built before it kept as q
Built(r) ==
    /\ p' = r.self
    /\ grandom' = r.grandom

\* the arguments of a second call: the same, or with another value for
\* shuffle_after_expected or for operators_spec
NextArgs(a) ==
    {a, [a EXCEPT !.shuffle_after_expected = ~@]}
    \cup {[a EXCEPT !.operators_spec = o] : o \in OpSpecs}

NewPuzzle ==
    /\ pc \in {"new", "built"}
    /\ cfg' \in IF pc = "new" THEN {cfg} ELSE NextArgs(cfg)
    /\ \E entropy \in 0..MaxEntropy : Built(Puzzle(cfg', Today, entropy, grandom))
    /\ q' = p
    /\ qcfg' = cfg
    /\ pc' = IF pc = "new" THEN "built" ELSE "rebuilt"
    /\ UNCHANGED <<sols, attempts, saved_specs, inserted, line, res, solver>>

\* the cache written whatever store says
SolvedStoringAlways(max_solutions, store, found) ==
    /\ sols' = [max_solutions |-> max_solutions, store |-> store, value |-> found]
    /\ p' = [p EXCEPT !.solutions = found]

Solved(max_solutions, store, found) ==
    /\ sols' = [max_solutions |-> max_solutions, store |-> store, value |-> found]
    /\ p' = IF store THEN [p EXCEPT !.solutions = found] ELSE p

\* sols = p.solve_all(max_solutions, store)
SolveAll ==
    /\ pc = "built"
    /\ ~p.raised
    /\ \E max_solutions \in {<<>>} \cup {Opt(m) : m \in 0..MaxCap}, store \in BOOLEAN :
          Solved(max_solutions, store, solve_all(p, max_solutions))
    /\ pc' = "solved"
    /\ UNCHANGED <<cfg, grandom, q, qcfg, attempts, saved_specs, inserted, line, res, solver>>

NextPuzzle == NewPuzzle \/ SolveAll

SpecPuzzle == InitPuzzle /\ [][NextPuzzle]_vars

(***************************************************************************)
(* Specification SpecSolve: Puzzle(cfg), then p.solve_all(max_solutions,   *)
(* store) taken one statement of place at a time.                          *)
(*   pc = "solving"   solve_all is running; stack holds the calls of place *)
(*   pc = "solved"    solve_all has returned sols.value                    *)
(* after which solve_all can be called again with the cache as it is.      *)
(* A frame of the stack is one call place(k); its field `at` is            *)
(*   "enter"     place(k) has just been called                             *)
(*   "loop"      at the head of `for val in candidates`, candidate i next  *)
(*   "placed"    candidate i assigned to the cell, nothing validated yet   *)
(*   "returned"  place(k + 1) has returned                                 *)
(* and board0, pool0 are the board and the pool as they were on entry.     *)
(***************************************************************************)
SolveArgs ==
    [N : {2, 3},
     seed : {<<>>, Opt(42)},
     use_daily_seed : {FALSE},
     shuffle_after_expected : BOOLEAN,
     operators_spec : {Opt(<< <<"+">> >>), Opt(<< <<"-", <<>>>>, <<"/", Opt(1)>> >>)},
     numbers_choices : {Opt(<<2, 3>>), Opt(<<0>>)}]

InitSolve ==
    /\ NoLine
    /\ NotSolving
    /\ pc = "new"
    /\ cfg \in SolveArgs
    /\ grandom \in {Random(e) : e \in 0..MaxEntropy}
    /\ p = <<>>
    /\ q = <<>>
    /\ qcfg = <<>>
    /\ sols = <<>>
    /\ attempts = 0
    /\ saved_specs = <<>>
    /\ inserted = <<>>

Frame(k, b, pl) == [k |-> k, at |-> "enter", candidates |-> <<>>, i |-> 1, board0 |-> b, pool0 |-> pl]

Top == stack[Len(stack)]
Callers == SubSeq(stack, 1, Len(stack) - 1)
TopIdx == fill_order(p.N)[Top.k + 1]
TopVal == Top.candidates[Top.i]
At(where) == pc = "solving" /\ stack # <<>> /\ Top.at = where

\* lines 470-477 and 539: board, pool and solutions are set up, place(0) is called;
\* the Puzzle can be solved again once a call has returned
Start ==
    /\ pc \in {"built", "solved"}
    /\ ~p.raised
    /\ \E max_solutions \in {<<>>} \cup {Opt(m) : m \in 0..MaxCap}, store \in BOOLEAN :
          sols' = [max_solutions |-> max_solutions, store |-> store, value |-> <<>>]
    /\ board' = [i \in 0..(p.N * p.N - 1) |-> 0]
    /\ pool' = Counter(p.numbers)
    /\ solutions' = <<>>
    /\ stack' = <<Frame(0, board', pool')>>
    /\ pc' = "solving"
    /\ UNCHANGED <<cfg, grandom, p, q, qcfg, attempts, saved_specs, inserted, line, res>>

\* lines 501-505: every cell is filled, the arrangement is recorded and place returns
RecordSolution ==
    /\ At("enter")
    /\ Top.k = Len(fill_order(p.N))
    /\ solutions' = Append(solutions, [i \in 1..Len(fill_order(p.N)) |-> board[fill_order(p.N)[i]]])
    /\ stack' = Callers
    /\ UNCHANGED <<pc, cfg, grandom, p, q, qcfg, sols, attempts, saved_specs, inserted, line, res, board, pool>>

\* lines 507-510: the candidates for cell fill_order[k]
Candidates ==
    /\ At("enter")
    /\ Top.k # Len(fill_order(p.N))
    /\ stack' = [stack EXCEPT ![Len(stack)] = [@ EXCEPT !.at = "loop", !.candidates = candidates(pool), !.i = 1]]
    /\ UNCHANGED <<pc, cfg, grandom, p, q, qcfg, sols, attempts, saved_specs, inserted, line, res, board, pool, solutions>>

\* lines 512-514: the next candidate is assigned to the cell
Assign ==
    /\ At("loop")
    /\ Top.i <= Len(Top.candidates)
    /\ board' = [board EXCEPT ![TopIdx] = TopVal]
    /\ pool' = [pool EXCEPT ![TopVal] = @ - 1]
    /\ stack' = [stack EXCEPT ![Len(stack)].at = "placed"]
    /\ UNCHANGED <<pc, cfg, grandom, p, q, qcfg, sols, attempts, saved_specs, inserted, line, res, solutions>>

\* line 512: no candidate is left, place returns
Exhausted ==
    /\ At("loop")
    /\ Top.i > Len(Top.candidates)
    /\ stack' = Callers
    /\ UNCHANGED <<pc, cfg, grandom, p, q, qcfg, sols, attempts, saved_specs, inserted, line, res, board, pool, solutions>>

\* lines 517-518 and 523-524: the lines handed to _row_is_valid and _col_is_valid
\* for the placement at idx, and whether one of them refuses the placement
RowRejects(idx) == completes_row(idx, p.N) # <<>> /\ ~_row_is_valid(p, board, completes_row(idx, p.N)[1])
ColRejects(idx) == completes_col(idx, p.N) # <<>> /\ ~_col_is_valid(p, board, completes_col(idx, p.N)[1])
\* the column validation left out
RejectedByRowOnly(idx) == RowRejects(idx)

Rejected(idx) == RowRejects(idx) \/ ColRejects(idx)

\* the value is not given back to the pool
UndoBoardOnly ==
    /\ board' = [board EXCEPT ![TopIdx] = 0]
    /\ pool' = pool

\* pool[val] += 1; board[idx] = None
Undo ==
    /\ board' = [board EXCEPT ![TopIdx] = 0]
    /\ pool' = [pool EXCEPT ![TopVal] = @ + 1]

\* lines 519-521 and 525-527: the line just completed misses its target: undo, continue
Reject ==
    /\ At("placed")
    /\ Rejected(TopIdx)
    /\ Undo
    /\ stack' = [stack EXCEPT ![Len(stack)] = [@ EXCEPT !.at = "loop", !.i = @ + 1]]
    /\ UNCHANGED <<pc, cfg, grandom, p, q, qcfg, sols, attempts, saved_specs, inserted, line, res, solutions>>

\* line 529: place(k + 1)
Recurse ==
    /\ At("placed")
    /\ ~Rejected(TopIdx)
    /\ stack' = Append([stack EXCEPT ![Len(stack)].at = "returned"], Frame(Top.k + 1, board, pool))
    /\ UNCHANGED <<pc, cfg, grandom, p, q, qcfg, sols, attempts, saved_specs, inserted, line, res, board, pool, solutions>>

\* line 531
CapReached == sols.max_solutions # <<>> /\ Len(solutions) >= sols.max_solutions[1]

\* lines 531-534: the cap is reached: undo, return
CapReturn ==
    /\ At("returned")
    /\ CapReached
    /\ Undo
    /\ stack' = Callers
    /\ UNCHANGED <<pc, cfg, grandom, p, q, qcfg, sols, attempts, saved_specs, inserted, line, res, solutions>>

\* lines 536-537: undo, on to the next candidate
NextCandidate ==
    /\ At("returned")
    /\ ~CapReached
    /\ Undo
    /\ stack' = [stack EXCEPT ![Len(stack)] = [@ EXCEPT !.at = "loop", !.i = @ + 1]]
    /\ UNCHANGED <<pc, cfg, grandom, p, q, qcfg, sols, attempts, saved_specs, inserted, line, res, solutions>>

\* lines 539-543: place(0) has returned: the solutions are stored and returned
Finish ==
    /\ pc = "solving"
    /\ stack = <<>>
    /\ Solved(sols.max_solutions, sols.store, solutions)
    /\ pc' = "solved"
    /\ UNCHANGED <<cfg, grandom, q, qcfg, attempts, saved_specs, inserted, line, res, solver>>

NextSolve ==
    \/ NewPuzzle
    \/ Start
    \/ RecordSolution
    \/ Candidates
    \/ Assign
    \/ Exhausted
    \/ Reject
    \/ Recurse
    \/ CapReturn
    \/ NextCandidate
    \/ Finish

SpecSolve == InitSolve /\ [][NextSolve]_vars

\* the statements give what the recursion gives
StepsAgreeWithSolveAll == pc = "solved" => sols.value = solve_all(p, sols.max_solutions)

(***************************************************************************)
(* Specification Spec: generate_and_store_puzzles called with cfg.         *)
(*   pc = "loop"      at the test of the while loop                        *)
(*   pc = "accepted"  find_one_puzzle has returned the Puzzle p            *)
(*   pc = "done"      the summary has been returned (res)                  *)
(*   pc = "raised"    an exception has left the call                       *)
(***************************************************************************)
BatchConfigs ==
    { c \in [count : 0..MaxCount,
             max_attempts : 0..MaxAttempts,
             N : {2, 3},
             difficulty : {3},
             allowed_numbers : {Opt(<<2, 3>>)},
             operators_spec : {Opt(<< <<"+">> >>), Opt(<< <<"+">>, <<"*", Opt(2)>> >>)},
             require_unique : BOOLEAN,
             include_solutions : BOOLEAN,
             solutions_cap : {<<>>, Opt(1)}] :
        ~c.include_solutions => c.solutions_cap = <<>> }

Init ==
    /\ NoLine
    /\ NotSolving
    /\ pc = "loop"
    /\ cfg \in BatchConfigs
    /\ grandom \in {Random(e) : e \in {0, 1}}
    /\ p = <<>>
    /\ q = <<>>
    /\ qcfg = <<>>
    /\ sols = <<>>
    /\ attempts = 0
    /\ saved_specs = <<>>
    /\ inserted = <<>>

\* the attempts compared with <= in place of <
LoopConditionOneMore == Len(saved_specs) < cfg.count /\ attempts <= cfg.max_attempts

\* the number of saved specs left out of the test
LoopConditionIgnoringCount == attempts < cfg.max_attempts

\* line 653: the condition of the while loop
LoopCondition == Len(saved_specs) < cfg.count /\ attempts < cfg.max_attempts

\* no cap at all
max_solutions_check_none == <<>>

\* line 661: the cap handed to find_one_puzzle
max_solutions_check == IF cfg.require_unique THEN Opt(2) ELSE <<>>

\* sols: the solve_all call made by find_one_puzzle (line 630), when the Puzzle was built
Attempted(r) ==
    /\ p' = r.self
    /\ grandom' = r.grandom
    /\ sols' = IF r.self.raised THEN sols
               ELSE [max_solutions |-> max_solutions_check, store |-> TRUE, value |-> r.self.solutions]
    /\ pc' = IF r.raised THEN "raised" ELSE IF r.found THEN "accepted" ELSE "loop"

\* lines 653-664: one more attempt, p = find_one_puzzle(...), continue when it is None
Attempt ==
    /\ pc = "loop"
    /\ LoopCondition
    /\ attempts' = attempts + 1
    /\ \E entropy \in 0..MaxEntropy :
          Attempted(find_one_puzzle(cfg.N, cfg.operators_spec, cfg.allowed_numbers,
                                    cfg.require_unique, max_solutions_check,
                                    Today, entropy, grandom))
    /\ UNCHANGED <<cfg, q, qcfg, saved_specs, inserted, line, res, solver>>

\* lines 675-687: skip the duplicate, else insert_puzzle(...) and saved_specs.append(spec)
Persisted(p1, spec) ==
    /\ p' = p1
    /\ IF _is_duplicate(p1, saved_specs)
       THEN UNCHANGED <<inserted, saved_specs>>
       ELSE /\ inserted' = Append(inserted,
                              [author_id |-> -1, size |-> cfg.N, board_spec |-> spec,
                               difficulty |-> cfg.difficulty,
                               num_solutions |-> IF Len(p1.solutions) # 0
                                                 THEN <<Len(p1.solutions)>> ELSE <<>>])
            /\ saved_specs' = Append(saved_specs, spec)

\* lines 669-673: spec = _as_board_spec(p, ...)
Serialized(p1) == Persisted(p1, _as_board_spec(p1, cfg.include_solutions, cfg.solutions_cap))

\* lines 666-687: cache the solutions if none are cached, serialize, persist
Persist ==
    /\ pc = "accepted"
    /\ Serialized(IF cfg.include_solutions /\ p.solutions = <<>>
                  THEN [p EXCEPT !.solutions = solve_all(p, <<>>)] ELSE p)
    /\ pc' = "loop"
    /\ UNCHANGED <<cfg, grandom, q, qcfg, sols, attempts, line, res, solver>>

\* lines 689-695: the loop is left and the summary returned
Return ==
    /\ pc = "loop"
    /\ ~LoopCondition
    /\ res' = [requested |-> cfg.count, inserted |-> Len(saved_specs), attempts |-> attempts,
               difficulty |-> cfg.difficulty, N |-> cfg.N]
    /\ pc' = "done"
    /\ UNCHANGED <<cfg, grandom, p, q, qcfg, sols, attempts, saved_specs, inserted, line, solver>>

Next == Attempt \/ Persist \/ Return

Spec == Init /\ [][Next]_vars

\* A step of the running call.  Every step of Next leaves pc = "loop" or
\* pc = "accepted" and changes pc or attempts, and Next is enabled exactly in
\* those two positions, so fairness of Running is fairness of Next.
Running ==
    /\ pc \in {"loop", "accepted"}
    /\ pc' \in {"loop", "accepted", "raised", "done"}
    /\ attempts' \in {attempts, attempts + 1}
    /\ <<pc', attempts'>> # <<pc, attempts>>

\* the call runs to its end: the interpreter never stops executing the loop
FairSpec == Spec /\ WF_<<pc, attempts>>(Running)

(***************************************************************************)
(* Reference notions the claims are stated with.                           *)
(***************************************************************************)
\* The value of  v1 o1 v2 ... on  term ::= term (*|/) v | v : None when undefined
RECURSIVE TermValue(_, _)
TermValue(values, ops) ==
    IF ops = <<>> THEN FrInt(values[1])
    ELSE LET n    == Len(ops)
             left == TermValue(SubSeq(values, 1, n), SubSeq(ops, 1, n - 1))
         IN  IF left = None THEN None
             ELSE IF ops[n] = "*" THEN Fraction(left[1] * values[n + 1], left[2])
             ELSE IF values[n + 1] = 0 THEN None
             ELSE Fraction(left[1], left[2] * values[n + 1])

\* ... and on  expr ::= expr (+|-) term | term
RECURSIVE ExprValue(_, _)
ExprValue(values, ops) ==
    LET additive == {i \in 1..Len(ops) : ops[i] \in {"+", "-"}}
    IN  IF additive = {} THEN TermValue(values, ops)
        ELSE LET k     == CHOOSE i \in additive : \A j \in additive : j <= i
                 left  == ExprValue(SubSeq(values, 1, k), SubSeq(ops, 1, k - 1))
                 right == TermValue(SubSeq(values, k + 1, Len(values)),
                                    SubSeq(ops, k + 1, Len(ops)))
             IN  IF left = None \/ right = None THEN None
                 ELSE IF ops[k] = "+"
                      THEN Fraction(left[1] * right[2] + right[1] * left[2], left[2] * right[2])
                      ELSE Fraction(left[1] * right[2] - right[1] * left[2], left[2] * right[2])

DividesByZero(values, ops) == \E i \in 1..Len(ops) : ops[i] = "/" /\ values[i + 1] = 0

\* The flat operator list read back: block r is row r's N-1 between-column
\* operators followed by level r's between-row operators, the last row's
\* N-2 between-column operators come last.
MeshBlock(N, r) == r * (2 * N - 1)

MeshRowOps(operators, N, r) ==
    IF r < N - 1 THEN [i \in 1..(N - 1) |-> operators[MeshBlock(N, r) + i]]
    ELSE [i \in 1..(N - 2) |-> operators[Len(operators) - (N - 2) + i]]

MeshColOps(operators, N, c) ==
    [l \in 1..(IF c < N - 1 THEN N - 1 ELSE N - 2) |->
        operators[MeshBlock(N, l - 1) + (N - 1) + c + 1]]

\* cells of row r / column c of an arrangement laid out row-major, blank last
RowCells(sol, N, r) == [i \in 1..(IF r < N - 1 THEN N ELSE N - 1) |-> sol[r * N + i]]
ColCells(sol, N, c) == [i \in 1..(IF c < N - 1 THEN N ELSE N - 1) |-> sol[(i - 1) * N + c + 1]]

Occurrences(x, v) == Cardinality({i \in 1..Len(x) : x[i] = v})
SameMultiset(x, y) ==
    /\ Len(x) = Len(y)
    /\ \A v \in Elems(x) \cup Elems(y) : Occurrences(x, v) = Occurrences(y, v)

MeetsTargets(self, sol) ==
    /\ \A r \in 0..(self.N - 1) :
          ExprValue(RowCells(sol, self.N, r), MeshRowOps(self.operators, self.N, r))
              = self.expected[r + 1]
    /\ \A c \in 0..(self.N - 1) :
          ExprValue(ColCells(sol, self.N, c), MeshColOps(self.operators, self.N, c))
              = self.expected[self.N + c + 1]

IsSolution(self, sol) ==
    /\ Len(sol) = self.N * self.N - 1
    /\ SameMultiset(sol, self.numbers)
    /\ MeetsTargets(self, sol)

\* the distinct arrangements of a multiset given as a Counter
RECURSIVE Arrangements(_)
Arrangements(bag) ==
    LET left == {v \in DOMAIN bag : bag[v] > 0}
    IN  IF left = {} THEN {<<>>}
        ELSE UNION {{<<v>> \o t : t \in Arrangements([bag EXCEPT ![v] = @ - 1])} : v \in left}

AllSolutions(self) ==
    {sol \in Arrangements([v \in Elems(self.numbers) |-> Occurrences(self.numbers, v)]) :
        MeetsTargets(self, sol)}

Distinct(x) == \A i, j \in 1..Len(x) : i # j => x[i] # x[j]

(***************************************************************************)
(* C3: every solution solve_all returns, whatever max_solutions, has       *)
(* N*N-1 entries, uses exactly the puzzle's multiset of numbers and makes  *)
(* every row and every column evaluate to its expected target.             *)
(***************************************************************************)
SolutionsAreValid ==
    pc = "solved" => \A i \in 1..Len(sols.value) : IsSolution(p, sols.value[i])

\* a capped call on a 3x3 puzzle with multiplications returned two solutions
SolutionsAreValidWitness ==
    /\ pc = "solved"
    /\ p.N = 3
    /\ "*" \in Elems(p.operators)
    /\ sols.max_solutions = <<2>>
    /\ Len(sols.value) = 2

(***************************************************************************)
(* C2: solve_all(max_solutions = m), m >= 1, returns exactly min(m, S)     *)
(* pairwise distinct solutions, S being the number of arrangements of the  *)
(* puzzle's numbers that meet all 2N targets; without a cap it returns     *)
(* every such arrangement exactly once.                                    *)
(***************************************************************************)
SolveAllCountsUpToCap ==
    pc = "solved" =>
        /\ Distinct(sols.value)
        /\ sols.max_solutions = <<>> => Elems(sols.value) = AllSolutions(p)
        /\ (sols.max_solutions # <<>> /\ sols.max_solutions[1] >= 1) =>
               Len(sols.value) = Min(sols.max_solutions[1], Cardinality(AllSolutions(p)))

\* the cap cut the enumeration short: two returned, at least three exist
SolveAllCountsWitness ==
    /\ pc = "solved"
    /\ sols.max_solutions = <<2>>
    /\ Len(sols.value) = 2
    /\ Cardinality(AllSolutions(p)) >= 3

(***************************************************************************)
(* C10: the generated mesh holds each exact-count operator exactly its     *)
(* declared number of times (none for a count of 0), every other slot      *)
(* holds an operator declared unlimited, and no operator outside the spec  *)
(* appears.                                                                *)
(***************************************************************************)
DeclaredSpec(a) == IF a.operators_spec = <<>> THEN DEFAULT_OP_SPEC ELSE a.operators_spec[1]
IsExact(tup) == Len(tup) = 2 /\ tup[2] # <<>>
ExactOps(spec) == {spec[i][1] : i \in {j \in 1..Len(spec) : IsExact(spec[j])}}
UnlimitedOps(spec) == {spec[i][1] : i \in {j \in 1..Len(spec) : ~IsExact(spec[j])}}

MeshFollowsSpec ==
    (pc \in {"built", "rebuilt"} /\ ~p.raised /\ DeclaredSpec(cfg) # <<>>) =>
        LET spec == DeclaredSpec(cfg)
        IN  /\ \A i \in 1..Len(spec) :
                  IsExact(spec[i]) => Occurrences(p.operators, spec[i][1]) = spec[i][2][1]
            /\ \A j \in 1..Len(p.operators) :
                  p.operators[j] \notin ExactOps(spec) => p.operators[j] \in UnlimitedOps(spec)

\* [('+', 2), ('*',), ('-', 0)] on a 3x3 board: two '+', eight '*', no '-'
MeshFollowsSpecWitness ==
    /\ pc = "built"
    /\ ~p.raised
    /\ p.N = 3
    /\ cfg.operators_spec = Opt(<< <<"+", Opt(2)>>, <<"*">>, <<"-", Opt(0)>> >>)
    /\ Occurrences(p.operators, "+") = 2
    /\ Occurrences(p.operators, "*") = 8

(***************************************************************************)
(* C4: two Puzzles built with the same N, the same explicit seed, the same *)
(* operators_spec and numbers_choices and shuffle_after_expected = False   *)
(* are structurally equal.                                                 *)
(***************************************************************************)
SameSeedSameSpecEqual ==
    (/\ pc = "rebuilt"
     /\ qcfg = cfg
     /\ cfg.seed # <<>>
     /\ ~cfg.shuffle_after_expected
     /\ ~p.raised /\ ~q.raised) => is_equal_to(p, q)

(***************************************************************************)
(* C8: p.is_equal_to(q) exactly when p and q have the same N, the same     *)
(* operator sequence, the same sequence of targets and equal multisets of  *)
(* numbers; _is_duplicate(p, [board spec of q]) gives the same verdict,    *)
(* two targets having the same canonical string exactly when equal.        *)
(***************************************************************************)
SameRational(x, y) == x[1] * y[2] = y[1] * x[2]

StructurallyEqual(x, y) ==
    /\ x.N = y.N
    /\ Len(x.operators) = Len(y.operators)
    /\ \A i \in 1..Len(x.operators) : x.operators[i] = y.operators[i]
    /\ Len(x.expected) = Len(y.expected)
    /\ \A i \in 1..Len(x.expected) : SameRational(x.expected[i], y.expected[i])
    /\ SameMultiset(x.numbers, y.numbers)

EqualityIsStructural ==
    (pc = "rebuilt" /\ ~p.raised /\ ~q.raised) =>
        /\ is_equal_to(p, q) <=> StructurallyEqual(p, q)
        /\ _is_duplicate(p, <<_as_board_spec(q, FALSE, <<>>)>>) <=> is_equal_to(p, q)
        /\ \A i \in 1..Len(p.expected), j \in 1..Len(q.expected) :
               _fraction_to_string(p.expected[i]) = _fraction_to_string(q.expected[j])
                   <=> SameRational(p.expected[i], q.expected[j])

\* equal although the numbers stand in another order: q as sampled, p shuffled
EqualityIsStructuralWitness ==
    /\ pc = "rebuilt"
    /\ ~p.raised /\ ~q.raised
    /\ p.N = 3
    /\ p.numbers # q.numbers
    /\ is_equal_to(p, q)
    /\ _is_duplicate(p, <<_as_board_spec(q, FALSE, <<>>)>>)

(***************************************************************************)
(* C1: a puzzle find_one_puzzle accepts with require_unique and the cap 2  *)
(* (so every puzzle generate_and_store_puzzles persists when uniqueness is *)
(* required) has exactly one solution when solved without a cap.           *)
(***************************************************************************)
AcceptedUniqueIsUnique ==
    (pc = "accepted" /\ cfg.require_unique) =>
        /\ Len(solve_all(p, <<>>)) = 1
        /\ Cardinality(AllSolutions(p)) = 1

\* a 3x3 candidate accepted as unique after an earlier one was turned down
AcceptedUniqueWitness ==
    /\ pc = "accepted"
    /\ cfg.require_unique
    /\ cfg.N = 3
    /\ attempts >= 2
    /\ saved_specs = <<>>

(***************************************************************************)
(* C5: no two board specs persisted by one generate_and_store_puzzles call *)
(* are structurally equal (same N, operators, canonical expected strings   *)
(* and multiset of numbers).                                               *)
(***************************************************************************)
SpecsEqual(x, y) ==
    /\ x.N = y.N
    /\ x.operators = y.operators
    /\ x.expected = y.expected
    /\ SameMultiset(x.numbers, y.numbers)

NoDuplicatePersisted ==
    \A i, j \in 1..Len(inserted) :
        i # j => ~SpecsEqual(inserted[i].board_spec, inserted[j].board_spec)

\* the second candidate was accepted and equals the saved one: it was skipped
DuplicateSkippedWitness ==
    /\ pc = "loop"
    /\ ~cfg.require_unique
    /\ attempts = 2
    /\ Len(inserted) = 1
    /\ SpecsEqual(_as_board_spec(p, FALSE, <<>>), inserted[1].board_spec)

(***************************************************************************)
(* C6: generate_and_store_puzzles terminates; attempts <= max_attempts and *)
(* inserted <= count throughout; it returns only with inserted = count or  *)
(* attempts = max_attempts, giving the summary and raising nothing; with   *)
(* max_attempts = 0 nothing is constructed or persisted.                   *)
(***************************************************************************)
BatchBounded ==
    /\ attempts <= cfg.max_attempts
    /\ Len(saved_specs) <= cfg.count
    /\ pc # "raised"
    /\ pc = "done" =>
          /\ Len(saved_specs) = cfg.count \/ attempts = cfg.max_attempts
          /\ res = [requested |-> cfg.count, inserted |-> Len(saved_specs),
                    attempts |-> attempts, difficulty |-> cfg.difficulty, N |-> cfg.N]
    /\ cfg.max_attempts = 0 => attempts = 0 /\ p = <<>> /\ inserted = <<>>

BatchTerminates == []BatchBounded /\ <>(pc = "done")

\* the attempts ran out with fewer puzzles than asked for, and the summary came back
PartialSuccessWitness ==
    /\ pc = "done"
    /\ attempts = cfg.max_attempts
    /\ attempts >= 2
    /\ res.inserted = 1
    /\ res.requested = 2

(***************************************************************************)
(* C7: insert_puzzle is called exactly once for each puzzle counted in     *)
(* inserted, only for a candidate find_one_puzzle accepted and that equals *)
(* no saved spec, and never once inserted has reached count; a rejected or *)
(* duplicate candidate costs exactly one attempt and no persistence call.  *)
(***************************************************************************)
InsertedAreSaved ==
    /\ Len(inserted) = Len(saved_specs)
    /\ \A i \in 1..Len(inserted) : inserted[i].board_spec = saved_specs[i]

InsertOnlyAccepted ==
    /\ inserted' # inserted =>
          /\ pc = "accepted"
          /\ Len(inserted) < cfg.count
          /\ inserted' = Append(inserted, inserted'[Len(inserted')])
          /\ inserted'[Len(inserted')].board_spec
                 = _as_board_spec(p, cfg.include_solutions, cfg.solutions_cap)
          /\ \A i \in 1..Len(saved_specs) :
                 ~SpecsEqual(saved_specs[i], _as_board_spec(p, FALSE, <<>>))
          /\ attempts' = attempts
    /\ (pc = "loop" /\ pc' = "loop") => attempts' = attempts + 1 /\ inserted' = inserted
    /\ (pc = "loop" /\ pc' = "accepted") => attempts' = attempts + 1 /\ inserted' = inserted
    /\ (pc = "accepted" /\ inserted' = inserted) =>
          /\ attempts' = attempts
          /\ \E i \in 1..Len(saved_specs) :
                 SpecsEqual(saved_specs[i], _as_board_spec(p, FALSE, <<>>))

PersistOncePerAccepted == []InsertedAreSaved /\ [][InsertOnlyAccepted]_vars

\* three attempts: one candidate turned down, two persisted
PersistWitness ==
    /\ pc = "loop"
    /\ cfg.require_unique
    /\ attempts = 3
    /\ Len(inserted) = 2
    /\ cfg.count = 2

(***************************************************************************)
(* C9: _eval_line_with_precedence returns the exact rational value of the  *)
(* line with * and / applied before + and -, left to right within each     *)
(* tier, and None exactly when some division has a zero right operand; the *)
(* four lines of the test suite evaluate to 14, 6, 4 and 8.                *)
(***************************************************************************)
EvalLineIsExact ==
    /\ pc = "evaluated" =>
          /\ res = ExprValue(line.values, line.ops)
          /\ res = None <=> DividesByZero(line.values, line.ops)
    /\ _eval_line_with_precedence(<<2, 3, 4>>, <<"+", "*">>) = FrInt(14)
    /\ _eval_line_with_precedence(<<8, 2, 2>>, <<"/", "+">>) = FrInt(6)
    /\ _eval_line_with_precedence(<<10, 3, 2>>, <<"-", "*">>) = FrInt(4)
    /\ _eval_line_with_precedence(<<5, 2, 6, 3>>, <<"*", "-", "/">>) = FrInt(8)
    /\ _eval_line_with_precedence(<<5, 0>>, <<"/">>) = None

\* a line where precedence decides the value
EvalLineWitness ==
    /\ pc = "evaluated"
    /\ line.values = <<2, 3, 3>>
    /\ line.ops = <<"-", "/">>
    /\ res = FrInt(1)

(***************************************************************************)
(* C11: a constructed Puzzle of size N has N*N-1 numbers, 2*N*(N-1)-2      *)
(* operators and 2*N expected targets; _row_ops(r) and _col_ops(c) have    *)
(* N-1 entries, except N-2 for the last row and the last column.           *)
(***************************************************************************)
SizesFollowN ==
    (pc \in {"built", "rebuilt", "solved"} /\ ~p.raised) =>
        /\ Len(p.numbers) = p.N * p.N - 1
        /\ Len(p.operators) = 2 * p.N * (p.N - 1) - 2
        /\ Len(p.expected) = 2 * p.N
        /\ \A r \in 0..(p.N - 1) :
               Len(_row_ops(p, r)) = IF r < p.N - 1 THEN p.N - 1 ELSE p.N - 2
        /\ \A c \in 0..(p.N - 1) :
               Len(_col_ops(p, c)) = IF c < p.N - 1 THEN p.N - 1 ELSE p.N - 2

\* a 3x3 puzzle: 8 numbers, 10 operators, 6 targets
SizesFollowNWitness ==
    /\ pc = "built"
    /\ ~p.raised
    /\ p.N = 3
    /\ Len(p.operators) = 10
    /\ Len(_col_ops(p, 2)) = 1

(***************************************************************************)
(* C12: _string_to_fraction(_fraction_to_string(x)) = x for every exact    *)
(* rational x; the string is the bare integer when the denominator is 1,   *)
(* else numerator/denominator with the sign on the numerator only; two     *)
(* rationals have the same string exactly when they are equal.             *)
(***************************************************************************)
DecimalDigits == {"0", "1", "2", "3", "4", "5", "6", "7", "8", "9"}

DigitRank == ("0" :> 0) @@ ("1" :> 1) @@ ("2" :> 2) @@ ("3" :> 3) @@ ("4" :> 4)
             @@ ("5" :> 5) @@ ("6" :> 6) @@ ("7" :> 7) @@ ("8" :> 8) @@ ("9" :> 9)

\* the number a string of decimal digits stands for, read by position
RECURSIVE PositionalValue(_)
PositionalValue(ds) ==
    IF ds = <<>> THEN 0
    ELSE PositionalValue(SubSeq(ds, 1, Len(ds) - 1)) * 10
         + DigitRank[ds[Len(ds)]]

\* the decimal numeral of a natural number below 100: no leading zero
NumeralOfNat(n) ==
    CHOOSE ds \in SeqsOfLen(DecimalDigits, 1) \cup SeqsOfLen(DecimalDigits, 2) :
        /\ PositionalValue(ds) = n
        /\ Len(ds) > 1 => ds[1] # "0"

NumeralOf(i) == IF i < 0 THEN <<"-">> \o NumeralOfNat(-i) ELSE NumeralOfNat(i)

CanonicalString(x) ==
    IF x[2] = 1 THEN NumeralOf(x[1]) ELSE NumeralOf(x[1]) \o <<"/">> \o NumeralOfNat(x[2])

FractionRoundTrips ==
    /\ (pc = "formatted") => res = CanonicalString(line.fr)
    /\ (pc = "parsed" /\ line.kind = "Fraction") => res = [raised |-> FALSE, value |-> line.fr]
    /\ (pc = "formatted") =>
          \A y \in FractionInputs :
              (_fraction_to_string(y) = res) <=> SameRational(y, line.fr)

\* -11/4 was written as "-11/4" and read back
FractionRoundTripsWitness ==
    /\ pc = "parsed"
    /\ line.kind = "Fraction"
    /\ line.fr = <<-11, 4>>
    /\ res = [raised |-> FALSE, value |-> <<-11, 4>>]

(***************************************************************************)
(* C13: Puzzle construction raises ValueError and yields no Puzzle for an  *)
(* operator symbol outside + - * /, a negative or non-integer exact count, *)
(* an operator declared both exact and unlimited, exact counts summing to  *)
(* more than the mesh size, exact counts leaving a remainder with no       *)
(* unlimited operator, an empty number domain, a domain value below 2.     *)
(***************************************************************************)
MeshSize(N) == 2 * N * (N - 1) - 2

BadSymbol(spec) == \E i \in 1..Len(spec) : spec[i][1] \notin {"+", "-", "*", "/"}

BadCount(spec) ==
    \E i \in 1..Len(spec) : IsExact(spec[i]) /\ (Len(spec[i][2]) # 1 \/ spec[i][2][1] < 0)

ExactAndUnlimited(spec) == ExactOps(spec) \cap UnlimitedOps(spec) # {}

RECURSIVE ExactTotal(_)
ExactTotal(spec) ==
    IF spec = <<>> THEN 0
    ELSE (IF IsExact(spec[1]) THEN spec[1][2][1] ELSE 0) + ExactTotal(Tail(spec))

TooManyExact(spec, N) == ~BadCount(spec) /\ ExactTotal(spec) > MeshSize(N)

NothingToFill(spec, N) ==
    /\ ~BadCount(spec)
    /\ ExactOps(spec) # {}
    /\ UnlimitedOps(spec) = {}
    /\ ExactTotal(spec) < MeshSize(N)

EmptyDomain(a) == a.numbers_choices = <<<<>>>>

BelowTwo(a) ==
    /\ a.numbers_choices # <<>>
    /\ \E i \in 1..Len(a.numbers_choices[1]) : a.numbers_choices[1][i] < 2

Refused(a) ==
    \/ BadSymbol(DeclaredSpec(a))
    \/ BadCount(DeclaredSpec(a))
    \/ ExactAndUnlimited(DeclaredSpec(a))
    \/ TooManyExact(DeclaredSpec(a), a.N)
    \/ NothingToFill(DeclaredSpec(a), a.N)
    \/ EmptyDomain(a)
    \/ BelowTwo(a)

\* p is the Puzzle object, not the exception that left the constructor
IsPuzzle(x) == ~x.raised /\ "numbers" \in DOMAIN x

InvalidConfigRaises ==
    (pc \in {"built", "rebuilt"} /\ Refused(cfg)) => (p.raised /\ ~IsPuzzle(p))

\* [('*', 1)] on a 3x3 board: nine slots left and no unlimited operator
InvalidConfigRaisesWitness ==
    /\ pc = "built"
    /\ cfg.N = 3
    /\ NothingToFill(DeclaredSpec(cfg), cfg.N)
    /\ p.raised

(***************************************************************************)
(* C14: when the exact operator counts sum to more than the mesh size, the *)
(* constructor raises before any value has been drawn from a random        *)
(* source: no number has been sampled when the error leaves it.            *)
(***************************************************************************)
RaisesBeforeSampling ==
    (pc \in {"built", "rebuilt"} /\ TooManyExact(DeclaredSpec(cfg), cfg.N)) =>
        (p.raised /\ p.sampled = <<>>)

(***************************************************************************)
(* C15: an empty list given as operators_spec is refused with ValueError   *)
(* at construction, never replaced by another spec.                        *)
(***************************************************************************)
EmptySpecRaises ==
    (pc \in {"built", "rebuilt"} /\ cfg.operators_spec = <<<<>>>>) => p.raised

(***************************************************************************)
(* C16: a candidate whose target computation divides by zero is discarded  *)
(* at the cost of one attempt and the batch goes on without raising.  The  *)
(* case it speaks of: _compute_expected meets an undefined line value.     *)
(***************************************************************************)
UndefinedTargetMet == p # <<>> /\ p.raised /\ p.why = "division by zero"

\* every divisor is a sampled number, and the sampled numbers are at least 2
NoUndefinedTarget == ~UndefinedTargetMet

(***************************************************************************)
(* C17: _string_to_fraction fails with ValueError, and with no other kind  *)
(* of error, for every malformed input: a missing integer part ('/3',      *)
(* '3/', '') or a zero denominator ('1/0'); it returns no value for them.  *)
(***************************************************************************)
HasSlash(s) == \E i \in 1..Len(s) : s[i] = "/"

BeforeSlash(s) == SubSeq(s, 1, (CHOOSE i \in 1..Len(s) : s[i] = "/" /\ \A j \in 1..(i - 1) : s[j] # "/") - 1)

AfterSlash(s) == SubSeq(s, (CHOOSE i \in 1..Len(s) : s[i] = "/" /\ \A j \in 1..(i - 1) : s[j] # "/") + 1, Len(s))

MissingIntegerPart(s) ==
    \/ s = <<>>
    \/ HasSlash(s) /\ (BeforeSlash(s) = <<>> \/ AfterSlash(s) = <<>>)

ZeroDenominator(s) ==
    /\ HasSlash(s)
    /\ AfterSlash(s) # <<>>
    /\ \A i \in 1..Len(AfterSlash(s)) : AfterSlash(s)[i] = "0"

MalformedRaisesValueError ==
    (pc = "parsed" /\ line.kind = "str"
        /\ (MissingIntegerPart(line.s) \/ ZeroDenominator(line.s))) =>
            (res.raised /\ res.why = "ValueError")

(***************************************************************************)
(* C18: a numbers_choices holding a value above 9 is refused by the        *)
(* constructor with ValueError, as a value below the minimum is; no Puzzle *)
(* is built from an out-of-range domain.                                   *)
(***************************************************************************)
AboveNine(a) ==
    /\ a.numbers_choices # <<>>
    /\ \E i \in 1..Len(a.numbers_choices[1]) : a.numbers_choices[1][i] > 9

OutOfRangeDomainRaises ==
    (pc \in {"built", "rebuilt"} /\ (AboveNine(cfg) \/ BelowTwo(cfg))) => p.raised

(***************************************************************************)
(* C19: two Puzzles constructed with the same N, seed and number domain    *)
(* but different operators_spec are never structurally equal.              *)
(***************************************************************************)
SameSeedOtherSpec ==
    /\ pc = "rebuilt"
    /\ ~p.raised /\ ~q.raised
    /\ cfg.N = qcfg.N
    /\ cfg.seed # <<>> /\ cfg.seed = qcfg.seed
    /\ cfg.numbers_choices = qcfg.numbers_choices
    /\ cfg.operators_spec # qcfg.operators_spec

OtherSpecNeverEqual == SameSeedOtherSpec => ~is_equal_to(p, q)

(***************************************************************************)
(* C19 as amended: such Puzzles are structurally unequal whenever the two  *)
(* (non-empty) specs force different numbers of occurrences of some        *)
(* operator: an exact count forces that count, an operator the spec does   *)
(* not declare is forced to 0, an unlimited operator is not forced.        *)
(***************************************************************************)
\* <<c>>: op occurs exactly c times in every mesh of the spec; <<>>: not forced
ForcedCount(spec, op) ==
    IF op \in UnlimitedOps(spec) THEN <<>>
    ELSE IF op \in ExactOps(spec)
    THEN LET i == CHOOSE j \in 1..Len(spec) : spec[j][1] = op IN <<spec[i][2][1]>>
    ELSE <<0>>

ForceDifferentMeshes(s1, s2) ==
    /\ s1 # <<>> /\ s2 # <<>>
    /\ \E op \in {"+", "-", "*", "/"} :
          /\ ForcedCount(s1, op) # <<>>
          /\ ForcedCount(s2, op) # <<>>
          /\ ForcedCount(s1, op) # ForcedCount(s2, op)

ForcedApartNeverEqual ==
    (SameSeedOtherSpec /\ ForceDifferentMeshes(DeclaredSpec(qcfg), DeclaredSpec(cfg)))
        => ~is_equal_to(p, q)

\* seed 42, [('+',)] then [('+',), ('*', 2)]: the same numbers, other operators
ForcedApartWitness ==
    /\ SameSeedOtherSpec
    /\ qcfg.operators_spec = <<<< <<"+">> >>>>
    /\ cfg.operators_spec = <<<< <<"+">>, <<"*", <<2>>>> >>>>
    /\ cfg.N = 3
    /\ Counter(p.numbers) = Counter(q.numbers)
    /\ ~is_equal_to(p, q)

(***************************************************************************)
(* C20: constructing a Puzzle reads and advances only the instance's own   *)
(* random source: the generator shared by all instances (the module-level  *)
(* one of `random`) is in the same state after a construction as before.   *)
(***************************************************************************)
OwnRandomSourceOnly == [][pc' \in {"built", "rebuilt"} => grandom' = grandom]_vars

(***************************************************************************)
(* C21: in solve_all with max_solutions set, once the number of recorded   *)
(* solutions has reached max_solutions no cell is assigned a candidate at  *)
(* any recursion level for the rest of the call: every active level undoes *)
(* its placement and returns.                                              *)
(***************************************************************************)
Unwinds ==
    \/ stack = <<>>
    \/ /\ stack' = Callers
       /\ board' = [board EXCEPT ![TopIdx] = 0]
       /\ pool' = [pool EXCEPT ![TopVal] = @ + 1]

NoAssignmentOnceCapReached ==
    [][(pc = "solving" /\ CapReached) =>
          /\ pc' \in {"solving", "solved"}
          /\ \A i \in DOMAIN board : board[i] = 0 => board'[i] = 0
          /\ Unwinds]_vars

\* the same for the caps m >= 1
NoAssignmentOncePositiveCapReached ==
    [][(pc = "solving" /\ CapReached /\ sols.max_solutions[1] >= 1) =>
          /\ pc' \in {"solving", "solved"}
          /\ \A i \in DOMAIN board : board[i] = 0 => board'[i] = 0
          /\ Unwinds]_vars

(***************************************************************************)
(* C22: a placement that fills the last non-blank cell of a row or column  *)
(* has that line validated before any later cell is assigned; a failed     *)
(* validation undoes the placement and moves to the next candidate without *)
(* recursing; no line is validated while one of its cells is unassigned.   *)
(* A line is filled when all its non-blank cells hold a number, and        *)
(* pending when the cell just assigned lies on it and is not validated yet.*)
(***************************************************************************)
LineWidth(N, l) == IF l < N - 1 THEN N ELSE N - 1
BoardRow(b, N, r) == [i \in 1..LineWidth(N, r) |-> b[r * N + i - 1]]
BoardCol(b, N, c) == [i \in 1..LineWidth(N, c) |-> b[(i - 1) * N + c]]
Filled(cells) == \A i \in 1..Len(cells) : cells[i] # 0

RowMeetsTarget(r) == ExprValue(BoardRow(board, p.N, r), MeshRowOps(p.operators, p.N, r)) = p.expected[r + 1]
ColMeetsTarget(c) == ExprValue(BoardCol(board, p.N, c), MeshColOps(p.operators, p.N, c)) = p.expected[p.N + c + 1]

RowPending(r) == At("placed") /\ TopIdx \div p.N = r
ColPending(c) == At("placed") /\ TopIdx % p.N = c

FilledLinesAreValidated ==
    pc = "solving" =>
        /\ \A r \in 0..(p.N - 1) : (Filled(BoardRow(board, p.N, r)) /\ ~RowPending(r)) => RowMeetsTarget(r)
        /\ \A c \in 0..(p.N - 1) : (Filled(BoardCol(board, p.N, c)) /\ ~ColPending(c)) => ColMeetsTarget(c)

ValidatedLinesAreFilled ==
    At("placed") =>
        /\ completes_row(TopIdx, p.N) # <<>> => Filled(BoardRow(board, p.N, completes_row(TopIdx, p.N)[1]))
        /\ (completes_col(TopIdx, p.N) # <<>> /\ ~RowRejects(TopIdx)) =>
               Filled(BoardCol(board, p.N, completes_col(TopIdx, p.N)[1]))

PlacementFails ==
    /\ At("placed")
    /\ \/ Filled(BoardRow(board, p.N, TopIdx \div p.N)) /\ ~RowMeetsTarget(TopIdx \div p.N)
       \/ Filled(BoardCol(board, p.N, TopIdx % p.N)) /\ ~ColMeetsTarget(TopIdx % p.N)

FailureMovesOn ==
    PlacementFails =>
        /\ Len(stack') = Len(stack)
        /\ stack'[Len(stack)] = [Top EXCEPT !.at = "loop", !.i = @ + 1]
        /\ board' = [board EXCEPT ![TopIdx] = 0]
        /\ pool' = [pool EXCEPT ![TopVal] = @ + 1]

LinesValidatedOnCompletion ==
    /\ [](FilledLinesAreValidated /\ ValidatedLinesAreFilled)
    /\ [][FailureMovesOn]_vars

\* the cell just assigned completes a row and a column, and the column misses its target
LinesValidatedWitness ==
    /\ At("placed")
    /\ completes_row(TopIdx, p.N) # <<>>
    /\ completes_col(TopIdx, p.N) # <<>>
    /\ RowMeetsTarget(TopIdx \div p.N)
    /\ ~ColMeetsTarget(TopIdx % p.N)

(***************************************************************************)
(* C23: throughout solve_all the blank index N*N-1 is never assigned, the  *)
(* assigned cells are exactly a prefix of the row-major fill order, no     *)
(* pool count is negative, the assigned values together with the pool are  *)
(* the puzzle's number multiset, and whenever place(k) returns, normally   *)
(* or early, board and pool are exactly as they were when it was entered.  *)
(***************************************************************************)
AssignedCount(v) == Cardinality({i \in DOMAIN board : board[i] = v})

BoardAndPoolBalanced ==
    pc \in {"solving", "solved"} =>
        /\ board[p.N * p.N - 1] = 0
        /\ \E j \in 0..(p.N * p.N - 1) : \A i \in DOMAIN board : board[i] # 0 <=> i < j
        /\ \A v \in DOMAIN pool : pool[v] >= 0
        /\ \A v \in DOMAIN pool \cup Elems(p.numbers) \cup ({board[i] : i \in DOMAIN board} \ {0}) :
              /\ v \in DOMAIN pool
              /\ AssignedCount(v) + pool[v] = Occurrences(p.numbers, v)

PlaceReturns == pc = "solving" /\ stack # <<>> /\ stack' = Callers

ReturnRestores == PlaceReturns => (board' = Top.board0 /\ pool' = Top.pool0)

SolverStateBalanced == []BoardAndPoolBalanced /\ [][ReturnRestores]_vars

\* place(k + 1) has returned into the loop of a level k >= 1, on a later candidate
SolverStateWitness ==
    /\ At("returned")
    /\ Top.k >= 1
    /\ Top.i >= 2
    /\ board = [Top.board0 EXCEPT ![TopIdx] = TopVal]

(***************************************************************************)
(* C24: the targets are computed from the numbers in sampled order and the *)
(* shuffle comes strictly afterwards: expected[i] is the value of line i   *)
(* over the pre-shuffle arrangement, numbers is a permutation of the       *)
(* sampled multiset, and the shuffle leaves operators and expected as the  *)
(* same construction without shuffle gives them.                           *)
(***************************************************************************)
TargetsOfSampled ==
    (pc \in {"built", "rebuilt"} /\ ~p.raised) =>
        /\ MeetsTargets(p, p.sampled)
        /\ SameMultiset(p.numbers, p.sampled)
        /\ ~cfg.shuffle_after_expected => p.numbers = p.sampled

Unshuffled(a) == [a EXCEPT !.shuffle_after_expected = FALSE]

ShuffleKeepsMesh ==
    (pc' \in {"built", "rebuilt"} /\ ~p'.raised) =>
        \E entropy \in 0..MaxEntropy :
            /\ p' = Puzzle(cfg', Today, entropy, grandom).self
            /\ p'.operators = Puzzle(Unshuffled(cfg'), Today, entropy, grandom).self.operators
            /\ p'.expected = Puzzle(Unshuffled(cfg'), Today, entropy, grandom).self.expected
            /\ p'.sampled = Puzzle(Unshuffled(cfg'), Today, entropy, grandom).self.numbers

TargetsBeforeShuffle == []TargetsOfSampled /\ [][ShuffleKeepsMesh]_vars

\* a Puzzle whose shuffled numbers no longer meet the targets of the sampled ones
TargetsBeforeShuffleWitness ==
    /\ pc = "built"
    /\ ~p.raised
    /\ cfg.shuffle_after_expected
    /\ p.numbers # p.sampled
    /\ ~MeetsTargets(p, p.numbers)

(***************************************************************************)
(* C25: every candidate examined by the batch loop is solved with the      *)
(* solver capped at 2 solutions, whether or not a unique solution is       *)
(* required: the batch never runs an uncapped enumeration.                 *)
(***************************************************************************)
CandidatesSolvedCappedAtTwo ==
    sols # <<>> =>
        /\ sols.max_solutions = Opt(2)
        /\ Len(sols.value) <= 2

\* amended: capped at 2 when a unique solution is required, a full
\* enumeration when it is not
CandidatesCappedWhenUnique ==
    sols # <<>> =>
        /\ cfg.require_unique => (sols.max_solutions = Opt(2) /\ Len(sols.value) <= 2)
        /\ ~cfg.require_unique => (sols.max_solutions = <<>> /\ Elems(sols.value) = AllSolutions(p))
        /\ sols.store /\ p.solutions = sols.value

\* a candidate accepted without the uniqueness requirement, all its four or
\* more solutions enumerated
UncappedCandidateWitness ==
    /\ pc = "accepted"
    /\ ~cfg.require_unique
    /\ sols.max_solutions = <<>>
    /\ Len(sols.value) > 2

(***************************************************************************)
(* C26: solve_all never changes N, numbers, operators or expected; with    *)
(* store=False the cached solutions are left as they were; with store=True *)
(* the cache afterwards holds exactly the solutions returned, in order.    *)
(***************************************************************************)
SolveAllStep == pc = "solving" \/ pc' = "solving"

SolveAllFrame ==
    SolveAllStep =>
        /\ p'.N = p.N
        /\ p'.numbers = p.numbers
        /\ p'.operators = p.operators
        /\ p'.expected = p.expected
        /\ IF pc' = "solved" /\ sols.store
           THEN p'.solutions = sols'.value /\ sols'.value = solutions
           ELSE p'.solutions = p.solutions

SolveAllKeepsPuzzle == [][SolveAllFrame]_vars

\* a call with store=False has returned other solutions than the cached ones
SolveAllKeepsCacheWitness ==
    /\ pc = "solved"
    /\ ~sols.store
    /\ p.solutions # <<>>
    /\ p.solutions # sols.value

(***************************************************************************)
(* C27: the flat list operators is, for r = 0 .. N-2 in turn, row r's      *)
(* between-column operators followed by level r's between-row operators,   *)
(* and finally the last row's between-column operators; read back with     *)
(* that layout it gives _row_ops(r) for every row and _col_ops(c) for      *)
(* every column.                                                           *)
(***************************************************************************)
FlatLayoutReadsBack ==
    (pc \in {"built", "rebuilt"} /\ ~p.raised) =>
        /\ Len(p.operators) = MeshSize(p.N)
        /\ \A r \in 0..(p.N - 1) : MeshRowOps(p.operators, p.N, r) = _row_ops(p, r)
        /\ \A c \in 0..(p.N - 1) : MeshColOps(p.operators, p.N, c) = _col_ops(p, c)

\* a 3 x 3 mesh whose first row and first level differ, so the order of the blocks shows
FlatLayoutWitness ==
    /\ pc = "built"
    /\ ~p.raised
    /\ p.N = 3
    /\ _col_ops(p, 0) # _row_ops(p, 1)
    /\ Cardinality(Elems(p.operators)) >= 2

(***************************************************************************)
(* C28: for every constructed Puzzle, shuffled or not, the uncapped        *)
(* solve_all returns at least one solution and the pre-shuffle arrangement *)
(* of the numbers is among them; so find_one_puzzle with                   *)
(* require_unique=False never rejects a constructed Puzzle.                *)
(***************************************************************************)
NotRejected(found) == FindOneVerdict([self |-> p, grandom |-> grandom], found, FALSE).found

SampledIsSolution ==
    pc = "solved" =>
        /\ sols.max_solutions = <<>> => (Len(sols.value) >= 1 /\ p.sampled \in Elems(sols.value))
        /\ sols.max_solutions # Opt(0) => NotRejected(sols.value)

\* a shuffled Puzzle solved without cap: several solutions, the sampled order one of them
SampledIsSolutionWitness ==
    /\ pc = "solved"
    /\ sols.max_solutions = <<>>
    /\ cfg.shuffle_after_expected
    /\ p.numbers # p.sampled
    /\ Len(sols.value) >= 2
    /\ p.sampled \in Elems(sols.value)

(***************************************************************************)
(* C29: for every valid number domain (values >= 2) and every mesh no line *)
(* evaluation yields the undefined value: _compute_expected never reaches  *)
(* its division-by-zero error and the solver's validation never sees an    *)
(* undefined line value.                                                   *)
(***************************************************************************)
RowValueSeen(r) == _eval_line_with_precedence(_row_values(p, board, r), _row_ops(p, r))
ColValueSeen(c) == _eval_line_with_precedence(_col_values(p, board, c), _col_ops(p, c))

ValidationSeesDefined ==
    At("placed") =>
        /\ completes_row(TopIdx, p.N) # <<>> =>
              /\ RowValueSeen(completes_row(TopIdx, p.N)[1]) # None
              /\ ~DividesByZero(_row_values(p, board, completes_row(TopIdx, p.N)[1]),
                                _row_ops(p, completes_row(TopIdx, p.N)[1]))
        /\ (completes_col(TopIdx, p.N) # <<>> /\ ~RowRejects(TopIdx)) =>
              /\ ColValueSeen(completes_col(TopIdx, p.N)[1]) # None
              /\ ~DividesByZero(_col_values(p, board, completes_col(TopIdx, p.N)[1]),
                                _col_ops(p, completes_col(TopIdx, p.N)[1]))

NoLineUndefined ==
    /\ (p # <<>> /\ p.raised) => p.why # "division by zero"
    /\ (p # <<>> /\ ~p.raised) => \A i \in 1..Len(p.expected) : p.expected[i] # None
    /\ ValidationSeesDefined

\* the solver validates a row holding a division, and its value is not an integer
NoLineUndefinedWitness ==
    /\ At("placed")
    /\ completes_row(TopIdx, p.N) # <<>>
    /\ "/" \in Elems(_row_ops(p, completes_row(TopIdx, p.N)[1]))
    /\ RowValueSeen(completes_row(TopIdx, p.N)[1])[2] > 1

(***************************************************************************)
(* C30: for every cap m >= 0, solve_all(max_solutions=m) returns at most m *)
(* solutions; in particular a cap of 0 returns the empty list.             *)
(***************************************************************************)
AtMostCapReturned ==
    (pc = "solved" /\ sols.max_solutions # <<>>) => Len(sols.value) <= sols.max_solutions[1]

\* the same for the caps m >= 1
AtMostPositiveCapReturned ==
    (pc = "solved" /\ sols.max_solutions # <<>> /\ sols.max_solutions[1] >= 1) =>
        Len(sols.value) <= sols.max_solutions[1]

====
